---- MODULE Spec2Model ----
(***************************************************************************)
(* A model of gallery.py: the Photo and Album classes, Album.html's render *)
(* loop over a small file system, the directory scan album() and the       *)
(* command-line block.                                                     *)
(*                                                                         *)
(* Python strings are sequences of character codes, so that lower(),       *)
(* rfind(), slicing and the lexicographic < of str are computed as Python  *)
(* computes them.  A Photo object is identified by its index in Catalogue  *)
(* (object identity: Photo defines no __eq__).                             *)
(***************************************************************************)
EXTENDS Integers, Sequences, FiniteSets, TLC

VARIABLES
    A,          \* the album under test: a record of Album's attributes
    B,          \* a second album, the right operand of A + B
    result,     \* outcome of the most recent call on A (value or exception)
    caption,    \* Photo.caption of every Photo object
    rating,     \* Photo.rating
    size,       \* Photo.size
    thumb,      \* Photo.thumb_size
    image,      \* dimensions of the image file behind every Photo (PIL's im.size)
    pc,         \* position inside Album.html: idle, loop, done, error
    i,          \* Album.html's loop variable
    call,       \* arguments of the running Album.html call and the directory's prior content
    page,       \* arguments of the most recent Photo.html call
    body,       \* Album.html's index body: one entry per photo processed
    exists,     \* file system: kind of each directory path (absent, dir, file)
    files,      \* file system: the regular files
    written,    \* files created or overwritten since the start of the run
    listing,    \* file system: names listed in the source directory /d
    notes,      \* entries of the companion .txt file of /d (<<>> when there is none)
    argv,       \* sys.argv[1:]
    opts,       \* __main__'s album_path, count, no_output, with_links
    mainpc,     \* position inside the __main__ block
    err         \* the exception that ended the run ("" when none)

vars == <<A, B, result, caption, rating, size, thumb, image, pc, i, call, page,
          body, exists, files, written, listing, notes, argv, opts, mainpc, err>>

----------------------------------------------------------------------------
(* Bounds of the model *)

\* longest photo list an Album is constructed from, for the calls on an album
MaxLen == 4
\* longest photo list an Album is constructed from, for the rendering
MaxHtmlLen == 5
\* largest width/height of a source image given to Photo.small
MaxDim == 6
\* largest target edge given to Photo.small
MaxTarget == 7
\* longest command line (arguments after the program name)
MaxArgs == 3

----------------------------------------------------------------------------
(* str *)

Range(s) == {s[k] : k \in DOMAIN s}

\* str.lower() on one character: 'A'..'Z' (65..90) become 'a'..'z'
LowerChar(c) == IF c >= 65 /\ c <= 90 THEN c + 32 ELSE c

\* str.lower()
Lower(s) == [k \in DOMAIN s |-> LowerChar(s[k])]

\* str.rfind(c) + 1: the 1-based position of the last c in s, 0 when absent
RFind(s, c) ==
    LET hits == {k \in DOMAIN s : s[k] = c}
    IN  IF hits = {} THEN 0 ELSE CHOOSE k \in hits : \A j \in hits : j <= k

\* s[n:] and s[:n] for 0 <= n (Python's 0-based slice bounds)
From(s, n) == SubSeq(s, n + 1, Len(s))
UpTo(s, n) == SubSeq(s, 1, IF n < Len(s) THEN n ELSE Len(s))

RECURSIVE StrLt(_, _)
\* str.__lt__: lexicographic by code point, a proper prefix is smaller
StrLt(a, b) ==
    IF b = <<>> THEN FALSE
    ELSE IF a = <<>> THEN TRUE
    ELSE IF a[1] # b[1] THEN a[1] < b[1]
    ELSE StrLt(Tail(a), Tail(b))

\* str.replace("\n", " ")
ReplaceNewline(s) == [k \in DOMAIN s |-> IF s[k] = 10 THEN 32 ELSE s[k]]

\* list[x] for a Python int x: negative x counts from the end; "IndexError" outside
PyIndex(s, x) ==
    IF x >= 0 /\ x < Len(s) THEN [ok |-> TRUE, v |-> s[x + 1]]
    ELSE IF x < 0 /\ x >= -Len(s) THEN [ok |-> TRUE, v |-> s[Len(s) + x + 1]]
    ELSE [ok |-> FALSE, v |-> 0]

\* list[:n] for a Python int n: a negative n drops the last -n elements
PySlice(s, n) ==
    IF n >= 0 THEN UpTo(s, n)
    ELSE IF Len(s) + n > 0 THEN UpTo(s, Len(s) + n) ELSE <<>>

----------------------------------------------------------------------------
(* Photo *)

\* The Photo objects of the model: the file each was constructed with and the
\* dimensions of that image file.
\*   1: "/d/b.jpg"   2: "/d/A.jpg"   3: "/d/b.png"   4: "/d/a.jpg"   5: "/e/a.jpg"
Catalogue ==
    << [filename |-> <<47, 100, 47, 98, 46, 106, 112, 103>>, dims |-> <<800, 400>>],
       [filename |-> <<47, 100, 47, 65, 46, 106, 112, 103>>, dims |-> <<400, 800>>],
       [filename |-> <<47, 100, 47, 98, 46, 112, 110, 103>>, dims |-> <<3, 2>>],
       [filename |-> <<47, 100, 47, 97, 46, 106, 112, 103>>, dims |-> <<500, 500>>],
       [filename |-> <<47, 101, 47, 97, 46, 106, 112, 103>>, dims |-> <<640, 480>>] >>

PhotoIds == DOMAIN Catalogue

PHOTO_EXTENSIONS ==
    { <<106, 112, 103>>, <<106, 112, 101, 103>>, <<112, 110, 103>> }

Filename(p) == Catalogue[p].filename

\* os.path.split(filename)[1]
Name(p) == From(Filename(p), RFind(Filename(p), 47))

\* Photo.base: the name without its final extension
Base(p) ==
    LET k == RFind(Name(p), 46)
    IN  IF k = 0 THEN Name(p) ELSE UpTo(Name(p), k - 1)

\* extension(file)
extension(f) ==
    LET k == RFind(f, 46)
    IN  IF k = 0 THEN <<>> ELSE From(f, k)

\* Photo.__lt__ (both operands are Photos)
PhotoLt(p, q) == StrLt(Filename(p), Filename(q))

\* a*b/c rounded to the nearest integer instead of truncated
IntDivRounded(num, den) == (2 * num + den) \div (2 * den)

\* int(a*b/c) for non-negative a, b and positive c: the quotient truncated
IntDiv(num, den) == num \div den

\* the thumb_size Photo.small(s) computes from im.size = (w, h)
SmallDims(w, h, s) ==
    IF w > h THEN <<s, IntDiv(s * h, w)>>
    ELSE <<IntDiv(s * w, h), s>>

----------------------------------------------------------------------------
(* Album *)

RECURSIVE Insert(_, _)
\* one step of a stable sort that compares with Photo.__lt__ only
Insert(s, p) ==
    IF s = <<>> THEN <<p>>
    ELSE IF PhotoLt(p, Head(s)) THEN <<p>> \o s
    ELSE <<Head(s)>> \o Insert(Tail(s), p)

RECURSIVE PySort(_)
\* list.sort() on a list of Photos: stable, ascending by Photo.__lt__
PySort(s) ==
    IF s = <<>> THEN <<>>
    ELSE Insert(PySort(SubSeq(s, 1, Len(s) - 1)), s[Len(s)])

EmptyDict == [k \in {} |-> 0]

\* d[k] = v on a dict
DictSet(d, k, v) == [x \in (DOMAIN d) \cup {k} |-> IF x = k THEN v ELSE d[x]]

\* the key Album.__create_photo_dict files a Photo under, without the lower()
DictKeyRaw(p) == Name(p)

\* the key Album.__create_photo_dict files a Photo under
DictKey(p) == Lower(Name(p))

RECURSIVE DictFill(_, _)
\* the loop of Album.__create_photo_dict: a later photo replaces an earlier one
DictFill(d, ps) ==
    IF ps = <<>> THEN d
    ELSE DictFill(DictSet(d, DictKey(Head(ps)), Head(ps)), Tail(ps))

\* Album.__create_photo_dict
create_photo_dict(ps) == DictFill(EmptyDict, ps)

\* Album.thumb_size as set by the constructor
ThumbSizeDefault == 200

\* Album.__init__(photos, title, rel_dir, derived_from): PROPS holds only
\* 'title', which the copy loop skips, so derived_from contributes nothing
AlbumNew(ps, t, rd) ==
    [photos     |-> PySort(ps),
     photo_dict |-> create_photo_dict(PySort(ps)),
     title      |-> ReplaceNewline(t),
     thumb_size |-> ThumbSizeDefault,
     rel_dir    |-> rd]

IsAlbum(x) == "photos" \in DOMAIN x

\* the outcome of a call: its operation and argument, "ok" or the exception
\* raised, the value returned, and the values formatted into the exception's
\* message
Outcome(op, arg, kind, value, msg) ==
    [op |-> op, arg |-> arg, kind |-> kind, value |-> value, msg |-> msg]

NoCall == Outcome("none", <<>>, "ok", <<>>, <<>>)

\* Album.sort()
sort(alb) ==
    [alb EXCEPT !.photos = PySort(alb.photos),
                !.photo_dict = create_photo_dict(PySort(alb.photos))]

\* Album.__getitem__(x); x is [int |-> TRUE, v |-> n] or [int |-> FALSE, v |-> str]
getitem(alb, x) ==
    IF x.int
    THEN IF PyIndex(alb.photos, x.v).ok
         THEN Outcome("getitem", x, "ok", PyIndex(alb.photos, x.v).v, <<>>)
         ELSE Outcome("getitem", x, "IndexError", <<>>, <<Len(alb.photos)>>)
    ELSE IF Lower(x.v) \in DOMAIN alb.photo_dict
         THEN Outcome("getitem", x, "ok", alb.photo_dict[Lower(x.v)], <<>>)
         ELSE Outcome("getitem", x, "KeyError", <<>>, <<x.v>>)

\* Album.photo(name)
photo(alb, name) ==
    IF name \in DOMAIN alb.photo_dict
    THEN Outcome("photo", name, "ok", alb.photo_dict[name], <<>>)
    ELSE Outcome("photo", name, "KeyError", <<>>, <<name>>)

\* Album.max_count(count)
max_count(alb, count) ==
    AlbumNew(PySlice(alb.photos, count), alb.title, alb.rel_dir)

\* " + "
PlusSign == <<32, 43, 32>>

\* Album.__add__(other): an Album has no attribute rel_path
add(alb, other) ==
    IF ~IsAlbum(other)
    THEN Outcome("add", other, "TypeError", <<>>, <<>>)
    ELSE IF "rel_path" \notin DOMAIN other
    THEN Outcome("add", other, "AttributeError", <<>>, <<"rel_path">>)
    ELSE Outcome("add", other, "ok",
                 AlbumNew(alb.photos \o other.photos,
                          alb.title \o PlusSign \o other.title,
                          other.rel_path),
                 <<>>)

----------------------------------------------------------------------------
(* The file system: the directories Album.html and Photo.small touch, and
   the regular files, each a record of its directory, stem and suffix *)

Thumbs == "gallery/thumbs"
DirPaths == {"gallery", "html", Thumbs}

File(dir, stem, suffix) == [dir |-> dir, stem |-> stem, suffix |-> suffix]

\* "gallery/thumbs/<base>-thumb.jpg"
ThumbFile(p) == File(Thumbs, Base(p) \o <<45, 116, 104, 117, 109, 98>>, ".jpg")

\* "<dir>/<base>.html"
PageFile(dir, p) == File(dir, Base(p), ".html")

\* "<dir>/index.html"
IndexFile(dir) == File(dir, <<105, 110, 100, 101, 120>>, ".html")

\* a page left in a directory by an earlier run: "<dir>/old.html"
StaleFile(dir) == File(dir, <<111, 108, 100>>, ".html")

\* the HTML files of a directory
HtmlFiles(dir) == {f \in files : f.dir = dir /\ f.suffix = ".html"}

----------------------------------------------------------------------------
(* Photo.small *)

\* Photo.small, lines 97-98: a non-directory at gallery/thumbs is removed
SmallRemoved ==
    IF exists[Thumbs] = "file" THEN [exists EXCEPT ![Thumbs] = "absent"] ELSE exists

\* Photo.small, lines 99-100: os.mkdir succeeds only under an existing gallery/
SmallMkdirOk == SmallRemoved[Thumbs] = "dir" \/ exists["gallery"] = "dir"

\* Photo.small(s) on Photo p when the directory can be made: the thumbnail
\* file is written, size and thumb_size are recorded
SmallDone(p, s) ==
    /\ exists' = [SmallRemoved EXCEPT ![Thumbs] = "dir"]
    /\ size' = [size EXCEPT ![p] = image[p]]
    /\ thumb' = [thumb EXCEPT ![p] = SmallDims(image[p][1], image[p][2], s)]

----------------------------------------------------------------------------
(* Album.html *)

\* i_prev of Album.html for index k of n photos
IPrev(k, n) == IF k - 1 < 0 THEN n - 1 ELSE k - 1

\* i_next, written with the wrap of i_prev
INextStuck(k, n) == IF k + 1 >= n THEN n - 1 ELSE k + 1

\* i_next of Album.html for index k of n photos
INext(k, n) == IF k + 1 >= n THEN 0 ELSE k + 1

\* the count at which the sampling loop breaks
PanelMax == 9

RECURSIVE Removals(_)
\* every arrangement of the elements of s: the outcomes of random.shuffle
Removals(s) ==
    IF s = <<>> THEN {<<>>}
    ELSE UNION { { <<s[k]>> \o t :
                   t \in Removals(SubSeq(s, 1, k - 1) \o SubSeq(s, k + 1, Len(s))) } :
                 k \in {j \in DOMAIN s : \A h \in 1..(j - 1) : s[h] # s[j]} }

Shuffles(s) == Removals(s)

\* the photos the sampling loop skips, the current one forgotten
SkippedNoCurrent(prev, next, cur) == {prev, next}

\* the photos the sampling loop skips (compared by identity)
Skipped(prev, next, cur) == {prev, next, cur}

RECURSIVE PanelLoop(_, _, _)
\* the sampling loop of Album.html over the shuffled list
PanelLoop(rest, acc, skip) ==
    IF rest = <<>> THEN acc
    ELSE IF Head(rest) \in skip THEN PanelLoop(Tail(rest), acc, skip)
    ELSE IF Len(acc) + 1 = PanelMax THEN Append(acc, Head(rest))
    ELSE PanelLoop(Tail(rest), Append(acc, Head(rest)), skip)

NoPage == [index |-> -1, cur |-> 0, prev |-> 0, next |-> 0, randoms |-> <<>>]
NoHtmlCall == [name |-> "", delete_old_dir |-> FALSE, prior |-> {}]

\* Album.html(name, delete_old_dir) up to the loop: the existence check and
\* the mkdir.  An existing directory is kept as it is, whatever delete_old_dir
HtmlStart(name, delete_old_dir) ==
    /\ pc = "idle"
    /\ call' = [name |-> name, delete_old_dir |-> delete_old_dir,
                prior |-> {f \in files : f.dir = name}]
    /\ result' = Outcome("html", name, "running", <<>>, <<>>)
    /\ IF exists[name] # "absent"
       THEN IF ~delete_old_dir
            THEN pc' = "error" /\ err' = "IOError: already exists" /\ exists' = exists
            ELSE pc' = "loop" /\ err' = err /\ exists' = exists
       ELSE pc' = "loop" /\ err' = err /\ exists' = [exists EXCEPT ![name] = "dir"]
    /\ i' = 0
    /\ body' = <<>>
    /\ UNCHANGED <<A, B, caption, rating, size, thumb, image, page, files, written,
                   listing, notes, argv, opts, mainpc>>

\* one iteration of Album.html's loop: P.small, the index entry, the circular
\* neighbours, the shuffle and sampling, P.html.  (The module globals the loop
\* reads, no_output and with_links, are taken as set by the caller.)
HtmlStep ==
    /\ pc = "loop"
    /\ i < Len(A.photos)
    /\ LET P      == getitem(A, [int |-> TRUE, v |-> i]).value
           n      == Len(A.photos)
           i_prev == IPrev(i, n)
           i_next == INext(i, n)
           prev   == getitem(A, [int |-> TRUE, v |-> i_prev]).value
           next   == getitem(A, [int |-> TRUE, v |-> i_next]).value
       IN  IF ~SmallMkdirOk
           THEN /\ pc' = "error"
                /\ err' = "FileNotFoundError: gallery/thumbs"
                /\ exists' = SmallRemoved
                /\ UNCHANGED <<size, thumb, files, written, page, body, i>>
           ELSE /\ SmallDone(P, A.thumb_size)
                /\ \E random_images \in
                         { PanelLoop(shuffled, <<>>, Skipped(prev, next, P)) :
                           shuffled \in Shuffles(A.photos) } :
                     page' = [index |-> i, cur |-> P, prev |-> prev, next |-> next,
                              randoms |-> random_images]
                /\ files' = files \cup {ThumbFile(P), PageFile(call.name, P)}
                /\ written' = written \cup {ThumbFile(P), PageFile(call.name, P)}
                /\ body' = Append(body, [base |-> Base(P), caption |-> caption[P],
                                         thumb_size |-> SmallDims(image[P][1], image[P][2],
                                                                  A.thumb_size)])
                /\ i' = i + 1
                /\ UNCHANGED <<pc, err>>
    /\ UNCHANGED <<A, B, result, caption, rating, image, call, listing, notes, argv,
                   opts, mainpc>>

\* the end of Album.html: the index page is written
HtmlFinish ==
    /\ pc = "loop"
    /\ i = Len(A.photos)
    /\ files' = files \cup {IndexFile(call.name)}
    /\ written' = written \cup {IndexFile(call.name)}
    /\ pc' = "done"
    /\ result' = Outcome("html", call.name, "ok", <<>>, <<>>)
    /\ UNCHANGED <<A, B, caption, rating, size, thumb, image, i, call, page, body,
                   exists, listing, notes, argv, opts, mainpc, err>>

----------------------------------------------------------------------------
(* Calls on the album from a program that imports the module *)

\* arguments tried: indices around 0 <= i < N, names in several cases
IndexArgs == (0 - MaxLen - 1)..(MaxLen + 1)
Upper(s) == [k \in DOMAIN s |-> IF s[k] >= 97 /\ s[k] <= 122 THEN s[k] - 32 ELSE s[k]]
UnknownName == <<122, 46, 106, 112, 103>>
NameArgs ==
    {Name(p) : p \in PhotoIds} \cup {Lower(Name(p)) : p \in PhotoIds}
        \cup {Upper(Name(p)) : p \in PhotoIds} \cup {UnknownName}
Lists(n) == UNION { [1..k -> PhotoIds] : k \in 0..n }
\* "u\nv"
MultiLineTitle == <<117, 10, 118>>
NotAnAlbum == [value |-> 7]

Callable == mainpc = "lib" /\ pc # "loop"

LibUnchanged ==
    UNCHANGED <<B, caption, rating, size, thumb, image, pc, i, call, page, body,
                exists, files, written, listing, notes, argv, opts, mainpc, err>>

\* A.sort()
Sort ==
    /\ Callable
    /\ A' = sort(A)
    /\ result' = Outcome("sort", <<>>, "ok", <<>>, <<>>)
    /\ LibUnchanged

\* A[x]
GetItem ==
    /\ Callable
    /\ \/ \E n \in IndexArgs : result' = getitem(A, [int |-> TRUE, v |-> n])
       \/ \E w \in NameArgs : result' = getitem(A, [int |-> FALSE, v |-> w])
    /\ A' = A
    /\ LibUnchanged

\* A.photo(name)
PhotoByName ==
    /\ Callable
    /\ \E w \in NameArgs : result' = photo(A, w)
    /\ A' = A
    /\ LibUnchanged

\* A.max_count(count)
MaxCount ==
    /\ Callable
    /\ \E n \in IndexArgs :
         result' = Outcome("max_count", n, "ok", max_count(A, n), <<>>)
    /\ A' = A
    /\ LibUnchanged

\* A + other
Add ==
    /\ Callable
    /\ \E album \in BOOLEAN : result' = add(A, IF album THEN B ELSE NotAnAlbum)
    /\ A' = A
    /\ LibUnchanged

\* A.html(name, delete_old_dir)
Html ==
    /\ mainpc = "lib"
    /\ \E name \in {"gallery", "html"}, d \in BOOLEAN : HtmlStart(name, d)

----------------------------------------------------------------------------
(* Initial states *)

PhotosFresh ==
    /\ caption = [p \in PhotoIds |-> Name(p)]
    /\ rating = [p \in PhotoIds |-> 0]
    /\ size = [p \in PhotoIds |-> <<0, 0>>]
    /\ thumb = [p \in PhotoIds |-> <<0, 0>>]

HtmlIdle ==
    /\ pc = "idle" /\ i = 0 /\ call = NoHtmlCall /\ page = NoPage /\ body = <<>>

NoMain ==
    /\ listing = {} /\ notes = <<>> /\ argv = <<>> /\ mainpc = "lib" /\ err = ""
    /\ opts = [album_path |-> <<>>, count |-> 0, no_output |-> FALSE, with_links |-> FALSE]

\* the output side of the file system: gallery/thumbs can exist only inside
\* gallery/, and an existing output directory may hold a page of an earlier run
FsStates ==
    { e \in [DirPaths -> {"absent", "dir", "file"}] :
        /\ e["gallery"] # "file" /\ e["html"] # "file"
        /\ (e[Thumbs] # "absent" => e["gallery"] = "dir") }

FsAny ==
    /\ exists \in FsStates
    /\ files \in SUBSET {StaleFile(d) : d \in {"gallery", "html"}}
    /\ \A f \in files : exists[f.dir] = "dir"
    /\ written = {}

\* for the rendering: gallery/thumbs is not yet a directory, and the output
\* directories that exist are all empty or all hold a page of an earlier run
FsRender ==
    /\ exists \in {e \in FsStates : e[Thumbs] # "dir"}
    /\ files \in {{}, {StaleFile(d) : d \in {x \in {"gallery", "html"} : exists[x] = "dir"}}}
    /\ written = {}

FsOne ==
    /\ exists = [d \in DirPaths |-> IF d = "gallery" THEN "dir" ELSE "absent"]
    /\ files = {StaleFile("gallery")}
    /\ written = {}

Init ==
    /\ A \in {AlbumNew(ps, <<116>>, <<100>>) : ps \in Lists(MaxLen)}
    /\ B = AlbumNew(<<3, 1>>, MultiLineTitle, <<101>>)
    /\ result = NoCall
    /\ image = [p \in PhotoIds |-> Catalogue[p].dims]
    /\ PhotosFresh /\ HtmlIdle /\ NoMain /\ FsOne

Next == Sort \/ GetItem \/ PhotoByName \/ MaxCount \/ Add \/ Html \/ HtmlStep \/ HtmlFinish

Spec == Init /\ [][Next]_vars

\* an album long enough for the sampling loop to reach its break
LongList == [k \in 1..13 |-> IF k <= 10 THEN 2 ELSE 1]

InitHtml ==
    /\ A \in {AlbumNew(ps, <<116>>, <<100>>) : ps \in Lists(MaxHtmlLen) \cup {LongList}}
    /\ B = AlbumNew(<<>>, <<119>>, <<101>>)
    /\ result = NoCall
    /\ image = [p \in PhotoIds |-> Catalogue[p].dims]
    /\ PhotosFresh /\ HtmlIdle /\ NoMain /\ FsRender

NextHtml == Html \/ HtmlStep \/ HtmlFinish

SpecHtml == InitHtml /\ [][NextHtml]_vars

----------------------------------------------------------------------------
(* Photo.small called on its own, for source images of every small size *)

Dims == (1..MaxDim) \cup {400, 800}
Targets == (1..MaxTarget) \cup {200}

\* "thumbs/<base>-thumb.jpg": the path Photo.small returns
SmallPath(p) == [dir |-> "thumbs", stem |-> ThumbFile(p).stem, suffix |-> ".jpg"]

\* P.small(s) for the Photo P = 1
SmallCall ==
    /\ mainpc = "lib" /\ pc = "idle"
    /\ \E s \in Targets :
         IF ~SmallMkdirOk
         THEN /\ result' = Outcome("small", s, "FileNotFoundError", <<>>, <<>>)
              /\ exists' = SmallRemoved
              /\ UNCHANGED <<size, thumb, files, written>>
         ELSE /\ SmallDone(1, s)
              /\ files' = files \cup {ThumbFile(1)}
              /\ written' = written \cup {ThumbFile(1)}
              /\ result' = Outcome("small", s, "ok", SmallPath(1), <<>>)
    /\ UNCHANGED <<A, B, caption, rating, image, pc, i, call, page, body, listing,
                   notes, argv, opts, mainpc, err>>

InitSmall ==
    /\ A = AlbumNew(<<1>>, <<116>>, <<100>>)
    /\ B = AlbumNew(<<>>, <<119>>, <<101>>)
    /\ result = NoCall
    /\ \E w \in Dims, h \in Dims :
         image = [p \in PhotoIds |-> IF p = 1 THEN <<w, h>> ELSE Catalogue[p].dims]
    /\ PhotosFresh /\ HtmlIdle /\ NoMain /\ FsAny

NextSmall == SmallCall

SpecSmall == InitSmall /\ [][NextSmall]_vars

----------------------------------------------------------------------------
(* The directory scan album() and the __main__ block *)

\* os.getcwd(): the model runs in the root directory
Cwd == <<47>>

\* os.path.join(a, b)
PathJoin(a, b) ==
    IF b # <<>> /\ b[1] = 47 THEN b
    ELSE IF a = <<>> \/ a[Len(a)] = 47 THEN a \o b
    ELSE a \o <<47>> \o b

\* the source side of the file system: the directories are / and /d
SourceDir == <<47, 100>>
IsDir(path) == path \in {Cwd, SourceDir}

NotesName == <<110, 111, 116, 101, 115, 46, 116, 120, 116>>

\* os.listdir(dir): the root directory holds no image
ListDir(path) == IF path = SourceDir THEN listing ELSE {}

\* the Photo object album() constructs for a file name
PhotoOf(filename) == CHOOSE p \in PhotoIds : Filename(p) = filename

\* the files of a listing that pass album()'s extension filter
Scanned(path) == {F \in ListDir(path) : Lower(extension(F)) \in PHOTO_EXTENSIONS}

\* the entries of the companion file: photo A.jpg rated 2, an entry for a file
\* that is not in the directory, photo b.png without a rating
NotesEntries ==
    << [filename |-> <<65, 46, 106, 112, 103>>, rated |-> TRUE, rating |-> 2,
        caption |-> <<114, 97, 105, 110>>],
       [filename |-> <<122, 46, 106, 112, 103>>, rated |-> TRUE, rating |-> 1,
        caption |-> <<122>>],
       [filename |-> <<98, 46, 112, 110, 103>>, rated |-> FALSE, rating |-> 0,
        caption |-> <<100, 111, 103>>] >>

\* command-line arguments: the two flags, an existing and a missing directory, a count
Flag(f) == [flag |-> f, text |-> <<>>, numeric |-> FALSE, num |-> 0]
Word(w) == [flag |-> "", text |-> w, numeric |-> FALSE, num |-> 0]
Number(w, n) == [flag |-> "", text |-> w, numeric |-> TRUE, num |-> n]
Tokens ==
    { Flag("--no-output"), Flag("--with-links"), Word(<<100>>), Word(<<120>>),
      Number(<<50>>, 2) }

NoOpts == [album_path |-> <<>>, count |-> 0, no_output |-> FALSE, with_links |-> FALSE]

\* one pass of the argument loop, lines 495-510, on argument a
ParseOne(o, a) ==
    IF a.flag = "--no-output" THEN [o EXCEPT !.no_output = TRUE]
    ELSE IF a.flag = "--with-links" THEN [o EXCEPT !.with_links = TRUE]
    ELSE IF o.album_path = <<>> THEN [o EXCEPT !.album_path = a.text]
    ELSE IF o.count = 0 THEN [o EXCEPT !.count = a.num]
    ELSE o

\* int(argv[i]) raises ValueError in the pass on argument a
ParseRaises(o, a) ==
    /\ a.flag = "" /\ o.album_path # <<>> /\ o.count = 0 /\ ~a.numeric

RECURSIVE ParseLoop(_, _)
\* the argument loop over the first four arguments: the options, or the
\* ValueError of the first bad count
ParseLoop(o, args) ==
    IF args = <<>> THEN [ok |-> TRUE, opts |-> o]
    ELSE IF ParseRaises(o, Head(args)) THEN [ok |-> FALSE, opts |-> o]
    ELSE ParseLoop(ParseOne(o, Head(args)), Tail(args))

RootFile(stem, suffix) == File(".", stem, suffix)
StyleCss == RootFile(<<115, 116, 121, 108, 101>>, ".css")
TmpAlbum == RootFile(<<46, 116, 109, 112, 95, 97, 108, 98, 117, 109>>, "")

MainUnchanged ==
    UNCHANGED <<B, result, size, thumb, image, pc, i, call, page, body, exists,
                listing, notes, argv>>

\* lines 464-486: without arguments the usage text is paged and the run exits
Usage ==
    /\ mainpc = "start" /\ argv = <<>>
    /\ written' = written \cup {TmpAlbum}
    /\ mainpc' = "exit"
    /\ UNCHANGED <<A, caption, rating, files, opts, err>>
    /\ MainUnchanged

\* lines 488-510: the argument loop
ParseArgs ==
    /\ mainpc = "start" /\ argv # <<>>
    /\ LET r == ParseLoop(NoOpts, UpTo(argv, 4))
       IN  /\ opts' = r.opts
           /\ IF r.ok THEN mainpc' = "css" /\ err' = err
              ELSE mainpc' = "failed" /\ err' = "ValueError"
    /\ UNCHANGED <<A, caption, rating, files, written>>
    /\ MainUnchanged

\* line 513: write_css()
WriteCss ==
    /\ mainpc = "css"
    /\ files' = files \cup {StyleCss}
    /\ written' = written \cup {StyleCss}
    /\ mainpc' = "album"
    /\ UNCHANGED <<A, caption, rating, opts, err>>
    /\ MainUnchanged

\* line 514: album(album_path, no_output).  The companion .txt file is listed
\* with the rest and dropped by the extension filter; nothing reads it
Scan ==
    /\ mainpc = "album"
    /\ LET dir   == PathJoin(Cwd, opts.album_path)
           names == Scanned(dir)
       IN  IF ~IsDir(dir)
           THEN /\ mainpc' = "failed"
                /\ err' = "IOError: No such directory"
                /\ UNCHANGED <<A, caption, rating>>
           ELSE /\ \E order \in {q \in [1..Cardinality(names) -> names] : Range(q) = names} :
                     A' = sort(AlbumNew(
                            [k \in DOMAIN order |-> PhotoOf(dir \o <<47>> \o order[k])],
                            From(dir, RFind(dir, 47)), opts.album_path))
                /\ caption' = [p \in PhotoIds |->
                                 IF Filename(p) \in {dir \o <<47>> \o F : F \in names}
                                 THEN Name(p) ELSE caption[p]]
                /\ rating' = [p \in PhotoIds |->
                                 IF Filename(p) \in {dir \o <<47>> \o F : F \in names}
                                 THEN 0 ELSE rating[p]]
                /\ mainpc' = "titled"
                /\ err' = err
    /\ UNCHANGED <<files, written, opts>>
    /\ MainUnchanged

\* lines 515-522: the title of ".", the truncation to count photos, the sort
Prepare ==
    /\ mainpc = "titled"
    /\ LET t == IF A.title = <<46>> THEN <<>> ELSE A.title
           a == IF opts.count # 0 THEN max_count(A, opts.count) ELSE A
       IN  A' = sort([a EXCEPT !.title = ReplaceNewline(t)])
    /\ mainpc' = "html"
    /\ UNCHANGED <<caption, rating, files, written, opts, err>>
    /\ MainUnchanged

\* line 523: a.html("gallery", delete_old_dir=True)
MainHtml ==
    /\ mainpc = "html"
    /\ HtmlStart("gallery", TRUE)

\* lines 524-530: the album's index is copied, with its links rewritten, to
\* index.html beside the gallery directory
MainIndex ==
    /\ mainpc = "html" /\ pc = "done"
    /\ files' = files \cup {IndexFile(".")}
    /\ written' = written \cup {IndexFile(".")}
    /\ mainpc' = "exit"
    /\ UNCHANGED <<A, caption, rating, opts, err>>
    /\ MainUnchanged

PhotoNames == {Name(p) : p \in {q \in PhotoIds : UpTo(Filename(q), 3) = SourceDir \o <<47>>}}

InitMain ==
    /\ A = AlbumNew(<<>>, <<>>, <<>>)
    /\ B = AlbumNew(<<>>, <<119>>, <<101>>)
    /\ result = NoCall
    /\ image = [p \in PhotoIds |-> Catalogue[p].dims]
    /\ PhotosFresh /\ HtmlIdle
    /\ exists \in {e \in FsStates : e["html"] = "absent" /\ e[Thumbs] # "dir"}
    /\ files \in {{}, {StyleCss}, {StaleFile("gallery")}}
    /\ \A f \in files : IF f.dir = "." THEN TRUE ELSE exists[f.dir] = "dir"
    /\ written = {}
    /\ \E S \in SUBSET PhotoNames, N \in {{}, {NotesName}} : listing = S \cup N
    /\ notes = IF NotesName \in listing THEN NotesEntries ELSE <<>>
    /\ argv \in UNION { [1..k -> Tokens] : k \in 0..MaxArgs }
    /\ opts = NoOpts
    /\ mainpc = "start"
    /\ err = ""

NextMain ==
    Usage \/ ParseArgs \/ WriteCss \/ Scan \/ Prepare \/ MainHtml \/ HtmlStep
        \/ HtmlFinish \/ MainIndex

SpecMain == InitMain /\ [][NextMain]_vars

----------------------------------------------------------------------------
(* Properties *)

Min(a, b) == IF a < b THEN a ELSE b

\* the albums of a state: A, B and an album the last call returned
ReturnedAlbum == result.op = "max_count" \/ (result.op = "add" /\ result.kind = "ok")

\* the name mapping of alb is the case-insensitive index of its sequence
IsNameIndex(alb) ==
    /\ DOMAIN alb.photo_dict = {Lower(Name(alb.photos[k])) : k \in DOMAIN alb.photos}
    /\ \A key \in DOMAIN alb.photo_dict :
         /\ alb.photo_dict[key] \in Range(alb.photos)
         /\ Lower(Name(alb.photo_dict[key])) = key

\* C1: in every state reached by construction, sort(), max_count(n), A + B and
\* html(), the name mapping of every album is exactly the case-insensitive
\* index of its photo sequence: its keys are the lowercased names of the
\* photos, and every key maps to a photo of the sequence with that lowercased name.
C1_NameIndex ==
    /\ IsNameIndex(A)
    /\ IsNameIndex(B)
    /\ ReturnedAlbum => IsNameIndex(result.value)

\* C1 witness: after html() has run and sort() was called, on an album that
\* holds two photos whose names differ only in case
C1_Witness ==
    /\ pc = "done" /\ result.op = "sort"
    /\ {2, 4} \subseteq Range(A.photos)
    /\ Cardinality(DOMAIN A.photo_dict) < Cardinality(Range(A.photos))

\* the sequence s is non-decreasing by filename
NonDecreasing(s) == \A k \in 1..(Len(s) - 1) : ~PhotoLt(s[k + 1], s[k])

\* C2 as claimed: after A.sort() the sequence is non-decreasing by filename and
\* A.photo(v) returns the entry named v for every upper/lower-case variant v
\* of the name of every photo in the sequence.
C2_SortedAndCaseInsensitive ==
    result.op = "sort" =>
        /\ NonDecreasing(A.photos)
        /\ \A P \in Range(A.photos) :
             \A v \in {Name(P), Lower(Name(P)), Upper(Name(P))} :
                /\ photo(A, v).kind = "ok"
                /\ Lower(Name(photo(A, v).value)) = Lower(v)

\* C3 as claimed: html(name, delete_old_dir=True) into a directory that exists
\* and is not empty succeeds and leaves exactly one HTML file per photo plus
\* the index in it.
C3_RenderIntoExisting ==
    (call.delete_old_dir /\ call.prior # {}) =>
        /\ pc # "error"
        /\ pc = "done" => Cardinality(HtmlFiles(call.name)) = Len(A.photos) + 1

\* C4 as claimed: a run whose source directory does not exist fails with the
\* directory-not-found error before any file has been created or overwritten.
C4_NothingWrittenBeforeFailure ==
    (mainpc = "failed" /\ err = "IOError: No such directory") => written = {}

\* round(num/den) as Python rounds: to the nearest integer, a tie to the even one
RoundDiv(num, den) ==
    LET q == num \div den
        r == num % den
    IN  IF 2 * r < den THEN q
        ELSE IF 2 * r > den THEN q + 1
        ELSE IF q % 2 = 0 THEN q ELSE q + 1

\* thumb_size of Photo 1 pins the longer edge to s and has shorter edge short
ThumbIs(w, h, s, short) ==
    IF w >= h THEN thumb[1][1] = s /\ thumb[1][2] = short
    ELSE thumb[1][2] = s /\ thumb[1][1] = short

SmallReturned == result.op = "small" /\ result.kind = "ok"

\* C5 as claimed: after small(s) on an image of size (w, h) the longer edge of
\* thumb_size is s, the shorter is round(s * shorter / longer), and size is (w, h).
C5_Rounded ==
    SmallReturned =>
        LET w == image[1][1]
            h == image[1][2]
        IN  /\ ThumbIs(w, h, result.arg, RoundDiv(result.arg * Min(w, h),
                                                  IF w >= h THEN w ELSE h))
            /\ size[1] = <<w, h>>

\* C5 amended: after small(s) on an image of size (w, h), w, h, s >= 1, the
\* longer edge of thumb_size is s, the shorter is s * shorter / longer
\* truncated to an integer (rounded down, not to the nearest), and size is (w, h).
C5_Truncated ==
    SmallReturned =>
        LET w == image[1][1]
            h == image[1][2]
        IN  /\ ThumbIs(w, h, result.arg, (result.arg * Min(w, h)) \div
                                         (IF w >= h THEN w ELSE h))
            /\ size[1] = <<w, h>>

\* C5 witness: small(s) has returned for a landscape image whose scaled
\* height is at least 1, is no whole number and lies nearer to the next integer
C5_Witness ==
    /\ SmallReturned
    /\ image[1][1] > image[1][2]
    /\ thumb[1][2] >= 1
    /\ 2 * ((result.arg * image[1][2]) % image[1][1]) > image[1][1]

\* the photos of s and of t, counted with repetition, are the same
SameMembers(s, t) ==
    /\ Len(s) = Len(t)
    /\ \A p \in Range(s) \cup Range(t) :
         Cardinality({k \in DOMAIN s : s[k] = p}) = Cardinality({k \in DOMAIN t : t[k] = p})

\* C6 as claimed: A + B returns a new Album holding exactly the photos of A and
\* of B, titled A's title composed with B's, its other attributes those of A,
\* and leaves A and B as they were.
C6_AddReturnsUnion ==
    (result.op = "add" /\ IsAlbum(result.arg)) =>
        /\ result.kind = "ok"
        /\ SameMembers(result.value.photos, A.photos \o B.photos)
        /\ result.value.title = A.title \o PlusSign \o B.title
        /\ result.value.thumb_size = A.thumb_size
        /\ result.arg = B

\* C7 as claimed: a lookup by an integer outside 0 <= i < N, negative ones
\* included, or by a name that is not in the album, raises the not-found error
\* with the offending index or key in its message.
C7_LookupMissReported ==
    /\ result.op = "getitem" =>
         IF result.arg.int
         THEN (result.arg.v < 0 \/ result.arg.v >= Len(A.photos)) =>
                 /\ result.kind = "IndexError"
                 /\ result.arg.v \in Range(result.msg)
         ELSE Lower(result.arg.v) \notin {Lower(Name(p)) : p \in Range(A.photos)} =>
                 /\ result.kind = "KeyError"
                 /\ result.arg.v \in Range(result.msg)
    /\ result.op = "photo" =>
         (Lower(result.arg) \notin {Lower(Name(p)) : p \in Range(A.photos)} =>
            /\ result.kind = "KeyError"
            /\ result.arg \in Range(result.msg))

\* C8 as claimed: once album(dir) has scanned a directory with a companion
\* .txt file, every photo named by an entry of the file has the entry's rating
\* (0 when the entry gives none) and caption.
C8_NotesApplied ==
    (mainpc = "titled" /\ NotesName \in listing) =>
        \A k \in DOMAIN notes : \A p \in Range(A.photos) :
            Name(p) = notes[k].filename =>
                /\ rating[p] = (IF notes[k].rated THEN notes[k].rating ELSE 0)
                /\ caption[p] = notes[k].caption

\* C9: every page Album.html renders, for the photo at index i of N >= 1, is
\* given the photo at index (i-1) mod N as previous and the photo at index
\* (i+1) mod N as next, for N = 1 and N = 2 as well.
C9_CircularNavigation ==
    page.index >= 0 =>
        LET n == Len(A.photos)
        IN  /\ page.cur = A.photos[page.index + 1]
            /\ page.prev = A.photos[((page.index - 1) % n) + 1]
            /\ page.next = A.photos[((page.index + 1) % n) + 1]

\* C9 witness: the page of the last of three different photos was rendered,
\* its next is the first photo and its previous the second
C9_Witness ==
    /\ pc = "done" /\ Len(A.photos) = 3 /\ page.index = 2
    /\ Cardinality(Range(A.photos)) = 3
    /\ page.next = A.photos[1] /\ page.prev = A.photos[2]

PageNeighbours == {page.cur, page.prev, page.next}

\* C10 as claimed: the panel of every rendered page holds at most 9 photos,
\* all of the album, pairwise distinct, none the current, previous or next
\* photo, and exactly min(9, number of other album photos) of them.
C10_PanelDistinct ==
    page.index >= 0 =>
        /\ Len(page.randoms) <= 9
        /\ Range(page.randoms) \subseteq Range(A.photos)
        /\ \A a, b \in DOMAIN page.randoms : a # b => page.randoms[a] # page.randoms[b]
        /\ Range(page.randoms) \cap PageNeighbours = {}
        /\ Len(page.randoms) = Min(9, Cardinality(Range(A.photos) \ PageNeighbours))

\* C10 amended: the panel of every rendered page holds at most 9 entries, all
\* photos of the album, none the current, previous or next photo, each photo at
\* most as often as the album's sequence holds it (so pairwise distinct when
\* the sequence holds no photo twice), and exactly min(9, number of entries of
\* the sequence that are not the current, previous or next photo) of them.
C10_PanelOfOthers ==
    page.index >= 0 =>
        /\ Len(page.randoms) <= 9
        /\ Range(page.randoms) \subseteq Range(A.photos)
        /\ \A p \in Range(page.randoms) :
             Cardinality({k \in DOMAIN page.randoms : page.randoms[k] = p})
                 <= Cardinality({k \in DOMAIN A.photos : A.photos[k] = p})
        /\ Range(page.randoms) \cap PageNeighbours = {}
        /\ Len(page.randoms) =
             Min(9, Cardinality({k \in DOMAIN A.photos : A.photos[k] \notin PageNeighbours}))

\* C10 witness: a page of an album of five different photos was rendered with
\* a panel of the two photos that are not its neighbours
C10_Witness ==
    /\ page.index >= 0 /\ Cardinality(Range(A.photos)) = 5
    /\ Len(page.randoms) = 2 /\ page.randoms[1] # page.randoms[2]

====
